---- MODULE Spec2Model ----
(***************************************************************************)
(* Model of charts-agent/technical_analysis.py: the command-line entry     *)
(* point main, TechnicalAnalyzer.analyze and the four synthesis stages     *)
(* _recognize_patterns, _analyze_trend, _generate_signals and              *)
(* _calculate_confidence.                                                  *)
(*                                                                         *)
(* Numbers.  Prices, indicator values and timestamps are integers.  Two    *)
(* results are fractions in the source and are kept exact by a fixed       *)
(* scale: every pivot-point value is carried multiplied by 3 (the divisor  *)
(* of line 259) and the confidence is carried multiplied by 20 (the least  *)
(* scale that makes x/200*30, x/12*30 and x/100*20 whole).                 *)
(*                                                                         *)
(* Optional values.  Python's None is the empty tuple and a value v is the *)
(* one-element tuple <<v>>.                                                *)
(*                                                                         *)
(* TA-Lib, pandas and numpy are libraries outside the repository.  What    *)
(* they hand back is an input of the model: the signed result of each      *)
(* candlestick detector on the latest candle, the row order sort_values    *)
(* produces, and the dtype of the columns.                                 *)
(***************************************************************************)
EXTENDS Integers, Sequences, FiniteSets, TLC

VARIABLES
    pc,           \* position: "start"/"exit" for main, "call"/"return" for a stage
    args,         \* the operation under way and its arguments
    ret,          \* the value a stage returned
    stdout,       \* the JSON objects main has printed, in order
    exit_status   \* main's exit status; -1 while the process runs

vars == <<pc, args, ret, stdout, exit_status>>

---------------------------------------------------------------------------
(* Bounds of the model *)

MaxCandles == 2
MaxTimestamp == 1
MaxPrice == 2
MaxDataPoints == 201
MaxText == 4

---------------------------------------------------------------------------
(* Optional values, exceptions, dictionaries *)

None == <<>>
Some(v) == <<v>>

\* `x is not None`
IsDefined(x) == x # None

\* Python truth value of an Optional[float]: None and 0.0 are falsy
Truthy(x) == x # None /\ x[1] # 0

\* `x or 0` on an Optional[float]
OrZero(x) == IF Truthy(x) THEN x[1] ELSE 0

Raise(type, message) == [raised |-> TRUE, type |-> type, error |-> message]
Return(value) == [raised |-> FALSE, value |-> value]

EmptyDict == [k \in {} |-> "hold"]
Put(d, key, value) == [k \in DOMAIN d \cup {key} |-> IF k = key THEN value ELSE d[k]]

Last(s) == s[Len(s)]

---------------------------------------------------------------------------
(* TechnicalIndicators: the 17 optional fields of the dataclass, in order *)

IndicatorKeys ==
    << "sma_20", "sma_50", "sma_200", "ema_12", "ema_26",
       "rsi_14", "macd", "macd_signal", "macd_histogram", "stoch_k", "stoch_d",
       "bb_upper", "bb_middle", "bb_lower", "atr_14",
       "obv", "vwap" >>

IndicatorKeySet == {IndicatorKeys[i] : i \in 1..Len(IndicatorKeys)}

\* TechnicalIndicators(): every field defaults to None
TechnicalIndicators == [k \in IndicatorKeySet |-> None]

---------------------------------------------------------------------------
(* _recognize_patterns *)

\* patterns_to_check, in insertion order: <<display name, TA-Lib detector>>
patterns_to_check ==
    << <<"HAMMER", "CDLHAMMER">>,
       <<"INVERTED_HAMMER", "CDLINVERTEDHAMMER">>,
       <<"MORNING_STAR", "CDLMORNINGSTAR">>,
       <<"BULLISH_ENGULFING", "CDLENGULFING">>,
       <<"PIERCING", "CDLPIERCING">>,
       <<"THREE_WHITE_SOLDIERS", "CDL3WHITESOLDIERS">>,
       <<"DOJI", "CDLDOJI">>,
       <<"DRAGONFLY_DOJI", "CDLDRAGONFLYDOJI">>,
       <<"HANGING_MAN", "CDLHANGINGMAN">>,
       <<"SHOOTING_STAR", "CDLSHOOTINGSTAR">>,
       <<"EVENING_STAR", "CDLEVENINGSTAR">>,
       <<"BEARISH_ENGULFING", "CDLENGULFING">>,
       <<"DARK_CLOUD_COVER", "CDLDARKCLOUDCOVER">>,
       <<"THREE_BLACK_CROWS", "CDL3BLACKCROWS">> >>

\* the display names of a sequence of patterns_to_check items
PatternNames(items) == [i \in 1..Len(items) |-> items[i][1]]

\* strength from len(patterns_found)
pattern_strength(n) ==
    IF n >= 3 THEN "strong"
    ELSE IF n >= 2 THEN "moderate"
    ELSE "weak"

\* cdl[d] is result[-1] of TA-Lib detector d on (open_prices, high, low, close)
_recognize_patterns(cdl) ==
    LET found   == SelectSeq(patterns_to_check, LAMBDA e : cdl[e[2]] # 0)
        bullish == SelectSeq(found, LAMBDA e : cdl[e[2]] > 0)
        bearish == SelectSeq(found, LAMBDA e : ~(cdl[e[2]] > 0))
    IN  [ patterns_found   |-> PatternNames(found),
          bullish_patterns |-> PatternNames(bullish),
          bearish_patterns |-> PatternNames(bearish),
          strength         |-> pattern_strength(Len(found)) ]

---------------------------------------------------------------------------
(* _analyze_trend *)

\* <<trend_direction, trend_strength>>
trend_direction_strength(close, indicators) ==
    IF Truthy(indicators.sma_50) /\ Truthy(indicators.sma_200) THEN
        IF Last(close) > indicators.sma_50[1]
           /\ indicators.sma_50[1] > indicators.sma_200[1]
        THEN <<"bullish", 75>>
        ELSE IF Last(close) < indicators.sma_50[1]
                /\ indicators.sma_50[1] < indicators.sma_200[1]
        THEN <<"bearish", 75>>
        ELSE <<"neutral", 50>>
    ELSE IF Truthy(indicators.ema_12) /\ Truthy(indicators.ema_26) THEN
        IF indicators.ema_12[1] > indicators.ema_26[1] THEN <<"bullish", 60>>
        ELSE IF indicators.ema_12[1] < indicators.ema_26[1] THEN <<"bearish", 60>>
        ELSE <<"neutral", 50>>
    ELSE <<"neutral", 50>>

pivot_points_levels_swapped(close, high, low) ==
    LET h == Last(high)
        l == Last(low)
        c == Last(close)
        pivot == h + l + c
    IN  [ pivot |-> pivot,
          r1 |-> 2 * pivot - 3 * h,
          r2 |-> pivot + 3 * (h - l),
          r3 |-> 3 * h + 2 * (pivot - 3 * l),
          s1 |-> 2 * pivot - 3 * h,
          s2 |-> pivot - 3 * (h - l),
          s3 |-> 3 * l - 2 * (3 * h - pivot) ]

\* pivot_points of the latest candle; every value is 3 times the source's
pivot_points(close, high, low) ==
    LET h == Last(high)
        l == Last(low)
        c == Last(close)
        pivot == h + l + c                       \* 3 * typical_price
    IN  [ pivot |-> pivot,
          r1 |-> 2 * pivot - 3 * l,
          r2 |-> pivot + 3 * (h - l),
          r3 |-> 3 * h + 2 * (pivot - 3 * l),
          s1 |-> 2 * pivot - 3 * h,
          s2 |-> pivot - 3 * (h - l),
          s3 |-> 3 * l - 2 * (3 * h - pivot) ]

_analyze_trend(close, high, low, indicators) ==
    LET ds == trend_direction_strength(close, indicators)
        pp == IF Len(close) > 0 THEN pivot_points(close, high, low) ELSE EmptyDict
    IN  [ trend_direction   |-> ds[1],
          trend_strength    |-> ds[2],
          support_levels    |-> IF Len(close) > 0 THEN <<pp.s1, pp.s2, pp.s3>> ELSE <<>>,
          resistance_levels |-> IF Len(close) > 0 THEN <<pp.r1, pp.r2, pp.r3>> ELSE <<>>,
          pivot_points      |-> pp ]

---------------------------------------------------------------------------
(* _generate_signals *)

rsi_signal(signals, indicators) ==
    IF Truthy(indicators.rsi_14) THEN
        IF indicators.rsi_14[1] < 30 THEN Put(signals, "rsi", "buy")
        ELSE IF indicators.rsi_14[1] > 70 THEN Put(signals, "rsi", "sell")
        ELSE Put(signals, "rsi", "hold")
    ELSE signals

macd_signal(signals, indicators) ==
    IF Truthy(indicators.macd) /\ Truthy(indicators.macd_signal) THEN
        IF indicators.macd[1] > indicators.macd_signal[1] THEN Put(signals, "macd", "buy")
        ELSE IF indicators.macd[1] < indicators.macd_signal[1] THEN Put(signals, "macd", "sell")
        ELSE Put(signals, "macd", "hold")
    ELSE signals

bollinger_signal(signals, indicators) ==
    IF Truthy(indicators.bb_upper) /\ Truthy(indicators.bb_lower) THEN
        LET current_price == OrZero(indicators.vwap)
        IN  IF current_price <= indicators.bb_lower[1] THEN Put(signals, "bollinger", "buy")
            ELSE IF current_price >= indicators.bb_upper[1] THEN Put(signals, "bollinger", "sell")
            ELSE Put(signals, "bollinger", "hold")
    ELSE signals

pattern_signal(signals, patterns) ==
    IF Len(patterns.bullish_patterns) > Len(patterns.bearish_patterns)
    THEN Put(signals, "pattern", "buy")
    ELSE IF Len(patterns.bearish_patterns) > Len(patterns.bullish_patterns)
    THEN Put(signals, "pattern", "sell")
    ELSE Put(signals, "pattern", "hold")

trend_signal(signals, trend) ==
    IF trend.trend_direction = "bullish" THEN Put(signals, "trend", "buy")
    ELSE IF trend.trend_direction = "bearish" THEN Put(signals, "trend", "sell")
    ELSE Put(signals, "trend", "hold")

\* sum(1 for s in signals.values() if s == vote)
count_votes(signals, vote) == Cardinality({k \in DOMAIN signals : signals[k] = vote})

overall_signal_tie_buys(signals) ==
    IF count_votes(signals, "buy") >= count_votes(signals, "sell")
    THEN Put(signals, "overall", "buy")
    ELSE Put(signals, "overall", "sell")

\* majority vote over the signals set so far
overall_signal(signals) ==
    LET buy_count  == count_votes(signals, "buy")
        sell_count == count_votes(signals, "sell")
    IN  IF buy_count > sell_count THEN Put(signals, "overall", "buy")
        ELSE IF sell_count > buy_count THEN Put(signals, "overall", "sell")
        ELSE Put(signals, "overall", "hold")

_generate_signals(indicators, patterns, trend) ==
    overall_signal(
        trend_signal(
            pattern_signal(
                bollinger_signal(
                    macd_signal(
                        rsi_signal(EmptyDict, indicators),
                        indicators),
                    indicators),
                patterns),
            trend))

---------------------------------------------------------------------------
(* _calculate_confidence; the result is 20 times the source's *)

min_periods == 200

\* a number of confidence points, on the model's scale
Points(p) == 20 * p

Min(a, b) == IF a <= b THEN a ELSE b

\* data quality: 30 points from min_periods candles on, pro rata below
data_quality_points(data_points) ==
    IF data_points >= min_periods THEN Points(30)
    ELSE (data_points * Points(30)) \div min_periods

\* sum(1 for v in asdict(indicators).values() if v is not None)
indicator_count(indicators) ==
    Cardinality({k \in DOMAIN indicators : indicators[k] # None})

indicator_points(indicators) == (indicator_count(indicators) * Points(30)) \div 12

pattern_points_weak_free(patterns) ==
    IF patterns.strength = "strong" THEN Points(20)
    ELSE IF patterns.strength = "moderate" THEN Points(12)
    ELSE 0

pattern_points(patterns) ==
    IF patterns.strength = "strong" THEN Points(20)
    ELSE IF patterns.strength = "moderate" THEN Points(12)
    ELSE IF patterns.strength = "weak" THEN Points(5)
    ELSE 0

trend_points(trend) == (trend.trend_strength * Points(20)) \div 100

clamp_confidence_unclamped(confidence) == confidence

\* min(confidence, 100.0)
clamp_confidence(confidence) == Min(confidence, Points(100))

_calculate_confidence(indicators, patterns, trend, data_points) ==
    clamp_confidence(
        data_quality_points(data_points)
        + indicator_points(indicators)
        + pattern_points(patterns)
        + trend_points(trend))

---------------------------------------------------------------------------
(* Outcomes of the libraries *)

Detectors == {patterns_to_check[i][2] : i \in 1..Len(patterns_to_check)}

\* the values a TA-Lib candlestick detector gives for one candle
DetectorRange(d) ==
    IF d = "CDLENGULFING" THEN {-100, 0, 100}
    ELSE IF d \in {"CDLHANGINGMAN", "CDLSHOOTINGSTAR", "CDLEVENINGSTAR",
                   "CDLDARKCLOUDCOVER", "CDL3BLACKCROWS"} THEN {-100, 0}
    ELSE {0, 100}

\* every combination of detector results on the latest candle
CdlOutcomes == {c \in [Detectors -> {-100, 0, 100}] : \A d \in Detectors : c[d] \in DetectorRange(d)}

RowOrders(n) == {p \in [1..n -> 1..n] : \A i, j \in 1..n : p[i] = p[j] => i = j}

\* df.sort_values('timestamp') with the default kind='quicksort', which is not a
\* stable sort: every row order that is ascending by timestamp is a possible result
sort_values(rows) ==
    { [i \in 1..Len(rows) |-> rows[p[i]]] :
        p \in { q \in RowOrders(Len(rows)) :
                  \A i, j \in 1..Len(rows) :
                      i < j => rows[q[i]].timestamp <= rows[q[j]].timestamp } }

\* int(df['timestamp'].iloc[-1].timestamp() * 1000): milliseconds to a Timestamp, to
\* float seconds (rounded to 6 places), times 1000, truncated.  Up to 1000 ms the
\* float product is the millisecond count itself; above, it can fall just below it
\* (1.001 * 1000 = 1000.9999999999999) and int() then gives one less.
timestamp_ms(t) == IF t <= 1000 THEN {t} ELSE {t - 1, t}

Column(df, name) == [i \in 1..Len(df) |-> df[i][name]]

---------------------------------------------------------------------------
(* _calculate_indicators *)

\* float64 says the close, high, low and volume columns are numpy float64 arrays
\* (the JSON numbers were written as floats); integer arrays are refused by the first
\* TA-Lib call.  With float64 arrays every TA-Lib call returns (a series shorter than
\* the lookback gives NaN, numpy's division by a zero cumulative volume gives NaN or
\* inf with a warning), and then line 179 reads vwap.iloc on vwap, which is a numpy
\* array, not a pandas Series: AttributeError on every call.
_calculate_indicators(close, high, low, open_prices, volume, float64) ==
    IF ~float64
    THEN Raise("Exception", "input array type is not double")
    ELSE Raise("AttributeError", "'numpy.ndarray' object has no attribute 'iloc'")

---------------------------------------------------------------------------
(* analyze *)

\* ohlcv_data[0].get('symbol', 'UNKNOWN')
symbol_of(ohlcv_data) ==
    IF ohlcv_data[1].symbol # None THEN ohlcv_data[1].symbol[1] ELSE "UNKNOWN"

\* The outcomes analyze can have on ohlcv_data: an exception or a
\* TechnicalAnalysisResult, one per choice the libraries make.
analyze(ohlcv_data, float64) ==
    IF Len(ohlcv_data) = 0
    THEN {Raise("KeyError", "'timestamp'")}       \* df['timestamp'] of an empty frame
    ELSE UNION {
        LET close       == Column(df, "close")
            high        == Column(df, "high")
            low         == Column(df, "low")
            open_prices == Column(df, "open")
            volume      == Column(df, "volume")
            calculated  == _calculate_indicators(close, high, low, open_prices, volume, float64)
        IN  IF calculated.raised THEN {calculated}
            ELSE { LET indicators == calculated.value
                       patterns   == _recognize_patterns(cdl)
                       trend      == _analyze_trend(close, high, low, indicators)
                       signals    == _generate_signals(indicators, patterns, trend)
                       confidence == _calculate_confidence(indicators, patterns, trend, Len(df))
                   IN  Return([ symbol        |-> symbol_of(ohlcv_data),
                                timestamp     |-> ts,
                                current_price |-> Last(close),
                                indicators    |-> indicators,
                                patterns      |-> patterns,
                                trend         |-> trend,
                                signals       |-> signals,
                                confidence    |-> confidence ]) :
                   cdl \in CdlOutcomes, ts \in timestamp_ms(Last(df).timestamp) } :
        df \in sort_values(ohlcv_data) }

---------------------------------------------------------------------------
(* main *)

UsageObject ==
    [ error |-> "No OHLCV data provided",
      usage |-> "python technical_analysis.py <json_data>" ]

ErrorObject_without_type(e) == [error |-> e.error]

\* {'error': str(e), 'type': type(e).__name__}
ErrorObject(e) == [error |-> e.error, type |-> e.type]

---------------------------------------------------------------------------
(* json.loads on the text of sys.argv[1].  A text is the sequence of its      *)
(* characters; positions are Python's, counted from 0.  The decoder is the    *)
(* standard library's (Python 3.11), for texts without a line break, a        *)
(* backslash or a control character, and with no digit but 1.                 *)

\* s[i:i + 1]
At(s, i) == IF i >= 0 /\ i < Len(s) THEN s[i + 1] ELSE ""

RECURSIVE skip_whitespace(_, _)
\* WHITESPACE.match(s, i).end()
skip_whitespace(s, i) ==
    IF i >= Len(s) THEN Len(s)
    ELSE IF s[i + 1] = " " THEN skip_whitespace(s, i + 1)
    ELSE i

\* JSONDecodeError(msg, doc, pos): str(e) is "msg: line L column C (char pos)"
JSONDecodeError(msg, pos) ==
    Raise("JSONDecodeError",
          msg \o ": line 1 column " \o ToString(pos + 1) \o " (char " \o ToString(pos) \o ")")

\* the scanner found no value at idx
StopIteration(idx) == [raised |-> TRUE, type |-> "StopIteration", value |-> idx]

\* a value was scanned and ends before position end
Scanned(end) == [raised |-> FALSE, end |-> end]

\* a StopIteration of the scanner becomes "Expecting value"
ExpectingValue(r) ==
    IF r.raised /\ r.type = "StopIteration" THEN JSONDecodeError("Expecting value", r.value)
    ELSE r

RECURSIVE closing_quote(_, _)
\* the position of the next double quote from i on, or Len(s) when there is none
closing_quote(s, i) ==
    IF i >= Len(s) THEN Len(s)
    ELSE IF s[i + 1] = "\"" THEN i
    ELSE closing_quote(s, i + 1)

\* scanstring(s, end): end is the position after the opening quote
scanstring(s, end) ==
    LET q == closing_quote(s, end)
    IN  IF q >= Len(s) THEN JSONDecodeError("Unterminated string starting at", end - 1)
        ELSE Scanned(q + 1)

RECURSIVE number_end(_, _)
\* NUMBER_RE.match(s, i).end() on a run of digits
number_end(s, i) ==
    IF i < Len(s) /\ s[i + 1] = "1" THEN number_end(s, i + 1) ELSE i

RECURSIVE scan_once(_, _), JSONObject(_, _), object_pairs(_, _), JSONArray(_, _), array_values(_, _)

scan_once(s, idx) ==
    IF idx >= Len(s) THEN StopIteration(idx)
    ELSE IF s[idx + 1] = "\"" THEN scanstring(s, idx + 1)
    ELSE IF s[idx + 1] = "{" THEN JSONObject(s, idx + 1)
    ELSE IF s[idx + 1] = "[" THEN JSONArray(s, idx + 1)
    ELSE IF s[idx + 1] = "1" THEN Scanned(number_end(s, idx))
    ELSE StopIteration(idx)

\* JSONObject: end is the position after the opening brace
JSONObject(s, end) ==
    IF At(s, end) = "\"" THEN object_pairs(s, end + 1)
    ELSE LET e == skip_whitespace(s, end)
         IN  IF At(s, e) = "}" THEN Scanned(e + 1)
             ELSE IF At(s, e) # "\""
             THEN JSONDecodeError("Expecting property name enclosed in double quotes", e)
             ELSE object_pairs(s, e + 1)

\* one turn of JSONObject's loop: end is the position after the key's opening quote
object_pairs(s, end) ==
    LET key == scanstring(s, end)
    IN  IF key.raised THEN key
        ELSE
        LET colon == IF At(s, key.end) = ":" THEN key.end ELSE skip_whitespace(s, key.end)
        IN  IF At(s, colon) # ":" THEN JSONDecodeError("Expecting ':' delimiter", colon)
            ELSE
            LET value == ExpectingValue(scan_once(s, skip_whitespace(s, colon + 1)))
            IN  IF value.raised THEN value
                ELSE
                LET e == skip_whitespace(s, value.end)
                IN  IF At(s, e) = "}" THEN Scanned(e + 1)
                    ELSE IF At(s, e) # "," THEN JSONDecodeError("Expecting ',' delimiter", e)
                    ELSE
                    LET k == skip_whitespace(s, e + 1)
                    IN  IF At(s, k) # "\""
                        THEN JSONDecodeError(
                                 "Expecting property name enclosed in double quotes", k)
                        ELSE object_pairs(s, k + 1)

\* JSONArray: end is the position after the opening bracket
JSONArray(s, end) ==
    LET e == skip_whitespace(s, end)
    IN  IF At(s, e) = "]" THEN Scanned(e + 1) ELSE array_values(s, e)

\* one turn of JSONArray's loop: a value is expected at end
array_values(s, end) ==
    LET value == ExpectingValue(scan_once(s, end))
    IN  IF value.raised THEN value
        ELSE
        LET e == skip_whitespace(s, value.end)
        IN  IF At(s, e) = "]" THEN Scanned(e + 1)
            ELSE IF At(s, e) # "," THEN JSONDecodeError("Expecting ',' delimiter", e)
            ELSE array_values(s, skip_whitespace(s, e + 1))

\* JSONDecoder.decode(s): the error raised, or Scanned(Len(s)) for a JSON text
decode(s) ==
    LET value == ExpectingValue(scan_once(s, skip_whitespace(s, 0)))
    IN  IF value.raised THEN value
        ELSE LET e == skip_whitespace(s, value.end)
             IN  IF e # Len(s) THEN JSONDecodeError("Extra data", e) ELSE Scanned(e)

\* json.loads(sys.argv[1]): the decoder's error for a text that is not JSON, the
\* array of candles otherwise
json_loads(argv) ==
    IF argv.kind = "malformed" THEN decode(argv.text) ELSE Return(argv.ohlcv_data)

\* the outcomes of the try block: parsing, then the analysis
try_block(argv) ==
    LET parsed == json_loads(argv)
    IN  IF parsed.raised THEN {parsed} ELSE analyze(parsed.value, argv.float64)

\* len(sys.argv) < 2: the usage object, exit status 1
MainUsage ==
    /\ pc = "start"
    /\ args.fn = "main"
    /\ args.argv.kind = "none"
    /\ stdout' = Append(stdout, UsageObject)
    /\ exit_status' = 1
    /\ pc' = "exit"
    /\ UNCHANGED <<args, ret>>

\* the try block: the result object and a normal exit, or the error object and
\* exit status 1 on any exception
MainRun ==
    /\ pc = "start"
    /\ args.fn = "main"
    /\ args.argv.kind # "none"
    /\ \E outcome \in try_block(args.argv) :
          IF outcome.raised
          THEN /\ stdout' = Append(stdout, ErrorObject(outcome))
               /\ exit_status' = 1
          ELSE /\ stdout' = Append(stdout, outcome.value)
               /\ exit_status' = 0
    /\ pc' = "exit"
    /\ UNCHANGED <<args, ret>>

Timestamps == 0..MaxTimestamp
Prices == 0..MaxPrice
Volumes == {0, 1}
Symbols == {None, Some("S-USD")}

\* candles whose six numeric fields are all present
Candles ==
    { [ timestamp |-> t, open |-> c, high |-> MaxPrice, low |-> 0, close |-> c,
        volume |-> v, symbol |-> s ] :
        t \in Timestamps, c \in Prices, v \in Volumes, s \in Symbols }

Batches == UNION { [1..n -> Candles] : n \in 0..MaxCandles }

Chars == {"[", "]", "{", "}", ",", ":", "1", "\"", "a", " "}

Texts == UNION { [1..n -> Chars] : n \in 0..MaxText }

\* the texts json.loads refuses
MalformedTexts == {t \in Texts : decode(t).raised}

\* sys.argv[1:]: nothing, a string that is not JSON, or a JSON array of candles
NoArgv == { [kind |-> "none"] }

MalformedArgv == { [kind |-> "malformed", text |-> t] : t \in MalformedTexts }

JsonArgv ==
    { [kind |-> "json", ohlcv_data |-> b, float64 |-> f] :
        b \in Batches, f \in BOOLEAN }

NoReturn == [none |-> TRUE]

Init ==
    /\ pc = "start"
    /\ \/ \E a \in NoArgv : args = [fn |-> "main", argv |-> a]
       \/ \E a \in MalformedArgv : args = [fn |-> "main", argv |-> a]
       \/ \E a \in JsonArgv : args = [fn |-> "main", argv |-> a]
    /\ ret = NoReturn
    /\ stdout = <<>>
    /\ exit_status = -1

Next == MainUsage \/ MainRun

Spec == Init /\ [][Next]_vars

---------------------------------------------------------------------------
(* The stages called on their own: the arguments are drawn at the start and  *)
(* the call leaves the returned value in ret.                                *)

OptPrices == {None} \cup {Some(p) : p \in Prices}

NoMatch == [d \in Detectors |-> 0]

\* no match, one bullish match, one bearish match, one of each
CdlSamples ==
    { [NoMatch EXCEPT !["CDLHAMMER"] = a, !["CDLSHOOTINGSTAR"] = b] :
        a \in {0, 100}, b \in {-100, 0} }

\* PatternRecognition values of strength weak, moderate and strong
StrengthSamples ==
    { _recognize_patterns([NoMatch EXCEPT !["CDLHAMMER"] = a, !["CDLDOJI"] = b,
                                          !["CDLDRAGONFLYDOJI"] = b]) :
        a \in {0, 100}, b \in {0, 100} }

\* TrendAnalysis values: bullish/75, bearish/75, bullish/60, bearish/60, neutral/50
TrendSamples ==
    { _analyze_trend(<<c>>, <<4>>, <<0>>,
                     [TechnicalIndicators EXCEPT !.sma_50 = s50, !.sma_200 = Some(2),
                                                 !.ema_12 = Some(e12), !.ema_26 = Some(2)]) :
        c \in {0, 4}, s50 \in {None, Some(1), Some(3)}, e12 \in {1, 2, 3} }

\* TechnicalIndicators with the first k fields defined
IndicatorsDefined(k) ==
    [ key \in IndicatorKeySet |->
        IF (CHOOSE i \in 1..Len(IndicatorKeys) : IndicatorKeys[i] = key) <= k
        THEN Some(1) ELSE None ]

InitStage(calls) ==
    /\ pc = "call"
    /\ args \in calls
    /\ ret = NoReturn
    /\ stdout = <<>>
    /\ exit_status = -1

ReturnStage(value) ==
    /\ ret' = value
    /\ pc' = "return"
    /\ UNCHANGED <<args, stdout, exit_status>>

(* _recognize_patterns *)

InitPatterns ==
    InitStage({ [fn |-> "_recognize_patterns", cdl |-> c] : c \in CdlOutcomes })

CallRecognizePatterns ==
    /\ pc = "call"
    /\ args.fn = "_recognize_patterns"
    /\ ReturnStage(_recognize_patterns(args.cdl))

NextPatterns == CallRecognizePatterns

SpecPatterns == InitPatterns /\ [][NextPatterns]_vars

(* _analyze_trend *)

\* the latest candle's <<high, low, close>>: low <= close <= high
LatestCandles == {hlc \in Prices \X Prices \X Prices : hlc[2] <= hlc[3] /\ hlc[3] <= hlc[1]}

InitTrend ==
    InitStage({ [ fn |-> "_analyze_trend",
                  close |-> <<hlc[3]>>, high |-> <<hlc[1]>>, low |-> <<hlc[2]>>,
                  indicators |-> [TechnicalIndicators EXCEPT
                                     !.sma_50 = s50, !.sma_200 = s200,
                                     !.ema_12 = e12, !.ema_26 = e26] ] :
                hlc \in LatestCandles,
                s50 \in OptPrices, s200 \in OptPrices,
                e12 \in OptPrices, e26 \in OptPrices })

CallAnalyzeTrend ==
    /\ pc = "call"
    /\ args.fn = "_analyze_trend"
    /\ ReturnStage(_analyze_trend(args.close, args.high, args.low, args.indicators))

NextTrend == CallAnalyzeTrend

SpecTrend == InitTrend /\ [][NextTrend]_vars

(* _generate_signals *)

RsiValues == {None, Some(0), Some(29), Some(30), Some(70), Some(71)}
MacdValues == {None, Some(-1), Some(0), Some(1)}

InitSignals ==
    InitStage({ [ fn |-> "_generate_signals",
                  indicators |-> [TechnicalIndicators EXCEPT
                                     !.rsi_14 = rsi, !.macd = m, !.macd_signal = ms,
                                     !.bb_upper = bu, !.bb_lower = bl, !.vwap = vw],
                  patterns |-> _recognize_patterns(c),
                  trend |-> t ] :
                c \in CdlSamples, t \in TrendSamples,
                bu \in OptPrices, bl \in OptPrices, vw \in OptPrices,
                m \in MacdValues, ms \in MacdValues, rsi \in RsiValues })

CallGenerateSignals ==
    /\ pc = "call"
    /\ args.fn = "_generate_signals"
    /\ ReturnStage(_generate_signals(args.indicators, args.patterns, args.trend))

NextSignals == CallGenerateSignals

SpecSignals == InitSignals /\ [][NextSignals]_vars

(* _calculate_confidence *)

InitConfidence ==
    InitStage({ [ fn |-> "_calculate_confidence",
                  indicators |-> IndicatorsDefined(k),
                  patterns |-> p,
                  trend |-> t,
                  data_points |-> n ] :
                k \in 0..Len(IndicatorKeys), p \in StrengthSamples,
                t \in TrendSamples, n \in 1..MaxDataPoints })

CallCalculateConfidence ==
    /\ pc = "call"
    /\ args.fn = "_calculate_confidence"
    /\ ReturnStage(_calculate_confidence(args.indicators, args.patterns, args.trend,
                                         args.data_points))

NextConfidence == CallCalculateConfidence

SpecConfidence == InitConfidence /\ [][NextConfidence]_vars

---------------------------------------------------------------------------
(* Properties *)

SetOf(seq) == {seq[i] : i \in 1..Len(seq)}

ComponentSignals == {"rsi", "macd", "bollinger", "pattern", "trend"}

\* main was given a JSON array of at least one candle and has exited
ExitedOnCandles ==
    /\ pc = "exit"
    /\ args.argv.kind = "json"
    /\ Len(args.argv.ohlcv_data) >= 1

\* C1: for every valid candle batch of length >= 1 the indicator stage completes
\* without raising, analyze returns a result and main prints the success object,
\* not an error object.
C1_IndicatorStageNeverRaises ==
    ExitedOnCandles =>
        /\ exit_status = 0
        /\ Len(stdout) = 1
        /\ "error" \notin DOMAIN stdout[1]
        /\ "confidence" \in DOMAIN stdout[1]

\* C2: the confidence _calculate_confidence returns is within [0, 100] (0 to 2000 on
\* the model's scale of 20) for every data-point count, number of defined indicators,
\* pattern strength and trend strength.
C2_ConfidenceWithinBounds ==
    pc = "return" => (ret >= 0 /\ ret <= 20 * 100)

\* all 17 indicators defined on 200 or more candles with a strong pattern and trend
\* strength 75: the terms add up to 107.5 and the result is 100
C2_Witness ==
    /\ pc = "return"
    /\ args.data_points >= 200
    /\ \A k \in IndicatorKeySet : args.indicators[k] # None
    /\ args.patterns.strength = "strong"
    /\ args.trend.trend_strength = 75
    /\ ret = 20 * 100

\* C3: overall is buy iff strictly more of the present component signals are buy than
\* sell, sell iff strictly more are sell than buy, and hold on every tie; the overall
\* entry is not itself a vote.
C3_OverallIsStrictMajority ==
    pc = "return" =>
        LET present == ComponentSignals \cap DOMAIN ret
            buys    == Cardinality({k \in present : ret[k] = "buy"})
            sells   == Cardinality({k \in present : ret[k] = "sell"})
        IN  /\ "overall" \in DOMAIN ret
            /\ ret.overall \in {"buy", "sell", "hold"}
            /\ (ret.overall = "buy") <=> (buys > sells)
            /\ (ret.overall = "sell") <=> (sells > buys)
            /\ (ret.overall = "hold") <=> (buys = sells)

\* a tie of one buy against one sell with no optional signal present
C3_Witness ==
    /\ pc = "return"
    /\ DOMAIN ret = {"pattern", "trend", "overall"}
    /\ ret.pattern = "buy"
    /\ ret.trend = "sell"
    /\ ret.overall = "hold"

\* C4 as stated: for every TrendResult, r1 + s1 = 2 * pivot exactly.
C4_R1PlusS1IsTwicePivot ==
    pc = "return" =>
        ret.pivot_points.r1 + ret.pivot_points.s1 = 2 * ret.pivot_points.pivot

\* C4 amended: r1 + s1 = 4 * pivot - (high + low), which is 2 * pivot exactly when
\* 2 * close = high + low (values on the model's scale of 3).
C4_R1PlusS1Amended ==
    pc = "return" =>
        LET h  == Last(args.high)
            l  == Last(args.low)
            c  == Last(args.close)
            pp == ret.pivot_points
        IN  /\ pp.pivot = h + l + c
            /\ pp.r1 + pp.s1 = 4 * pp.pivot - 3 * (h + l)
            /\ (pp.r1 + pp.s1 = 2 * pp.pivot) <=> (2 * c = h + l)

\* a latest candle whose close is not the middle of high and low
C4_Witness ==
    /\ pc = "return"
    /\ Last(args.high) = 2 /\ Last(args.low) = 0 /\ Last(args.close) = 2
    /\ ret.pivot_points.r1 + ret.pivot_points.s1 # 2 * ret.pivot_points.pivot

\* C5 as stated: every failure path of main prints an object with both an error and a
\* type field and exits with a non-success status.
C5_FailuresCarryErrorAndType ==
    (pc = "exit" /\ (exit_status # 0 \/ args.argv.kind \in {"none", "malformed"}
                     \/ (args.argv.kind = "json" /\ Len(args.argv.ohlcv_data) = 0))) =>
        /\ exit_status # 0
        /\ Len(stdout) = 1
        /\ {"error", "type"} \subseteq DOMAIN stdout[1]

\* C5 amended: every failure path prints exactly one object and exits with status 1;
\* on an exception (malformed JSON, an empty batch, any error of the analysis) the
\* object has exactly the fields error and type, and with no argument it has the
\* fields error and usage and no type.  No failure prints a result.
C5_FailureObjects ==
    pc = "exit" =>
        /\ Len(stdout) = 1
        /\ exit_status \in {0, 1}
        /\ (args.argv.kind \in {"none", "malformed"}
            \/ (args.argv.kind = "json" /\ Len(args.argv.ohlcv_data) = 0))
           => exit_status = 1
        /\ exit_status = 1 =>
             IF args.argv.kind = "none"
             THEN DOMAIN stdout[1] = {"error", "usage"}
             ELSE DOMAIN stdout[1] = {"error", "type"}
        /\ exit_status = 0 => "error" \notin DOMAIN stdout[1]

\* an empty batch: the KeyError of the empty frame, as an error object
C5_Witness ==
    /\ pc = "exit"
    /\ args.argv.kind = "json"
    /\ Len(args.argv.ohlcv_data) = 0
    /\ stdout = << [error |-> "'timestamp'", type |-> "KeyError"] >>
    /\ exit_status = 1

MaxTimestampOf(rows) ==
    CHOOSE t \in {rows[i].timestamp : i \in 1..Len(rows)} :
        \A i \in 1..Len(rows) : rows[i].timestamp <= t

\* the last row of the stable ascending sort: of the rows with the greatest
\* timestamp, the one that arrived last
StableLast(rows) ==
    rows[CHOOSE i \in 1..Len(rows) :
            /\ rows[i].timestamp = MaxTimestampOf(rows)
            /\ \A j \in 1..Len(rows) : rows[j].timestamp = MaxTimestampOf(rows) => j <= i]

\* C6: for any arrival order, the result's timestamp is the greatest timestamp of the
\* batch, current_price is the close of the last candle of the stably sorted batch,
\* and symbol is read from the first element in arrival order.
C6_ResultOfStableSort ==
    ExitedOnCandles =>
        /\ exit_status = 0
        /\ Len(stdout) = 1
        /\ "timestamp" \in DOMAIN stdout[1]
        /\ stdout[1].timestamp = MaxTimestampOf(args.argv.ohlcv_data)
        /\ stdout[1].current_price = StableLast(args.argv.ohlcv_data).close
        /\ stdout[1].symbol = symbol_of(args.argv.ohlcv_data)

\* the call _calculate_confidence gets for a batch of one candle: one data point, no
\* pattern matched (weak), no moving-average pair (trend strength 50)
OneCandleCall ==
    /\ pc = "return"
    /\ args.data_points = 1
    /\ args.patterns.strength = "weak"
    /\ args.trend.trend_strength = 50

DefinedCount == Cardinality({k \in IndicatorKeySet : args.indicators[k] # None})

\* C7 as stated: for one candle the confidence is the data-sufficiency term
\* (1/200 x 30) plus the indicator-coverage term (count/12 x 30) and nothing else.
C7_OnlySufficiencyAndCoverage ==
    OneCandleCall => ret = 3 + 50 * DefinedCount

\* C7 amended: for one candle the confidence is the data-sufficiency term plus the
\* indicator-coverage term plus 5 points for the weak pattern strength plus 10 points
\* for trend strength 50 (all times 20 on the model's scale).
C7_OneCandleConfidence ==
    OneCandleCall => ret = 3 + 50 * DefinedCount + 20 * 5 + 20 * 10

\* one candle with obv and one more indicator defined: 0.15 + 5 + 5 + 10 = 20.15
C7_Witness ==
    /\ OneCandleCall
    /\ DefinedCount = 2
    /\ ret = 403

\* C8: rsi is present, with buy below 30, sell above 70 and hold otherwise, for every
\* defined RSI including 0; macd is present whenever the macd line and the signal line
\* are both defined, including 0; bollinger is present whenever bb_upper and bb_lower
\* are both defined; pattern, trend and overall are always present.
C8_SignalsOmittedOnlyWhenUndefined ==
    pc = "return" =>
        LET ind == args.indicators
        IN  /\ {"pattern", "trend", "overall"} \subseteq DOMAIN ret
            /\ ("rsi" \in DOMAIN ret) <=> IsDefined(ind.rsi_14)
            /\ IsDefined(ind.rsi_14) =>
                 ret.rsi = IF ind.rsi_14[1] < 30 THEN "buy"
                           ELSE IF ind.rsi_14[1] > 70 THEN "sell" ELSE "hold"
            /\ ("macd" \in DOMAIN ret) <=> (IsDefined(ind.macd) /\ IsDefined(ind.macd_signal))
            /\ ("bollinger" \in DOMAIN ret)
                 <=> (IsDefined(ind.bb_upper) /\ IsDefined(ind.bb_lower))

\* the rule of C9, where defined means the indicator has a value, zero included
ClaimedTrend(close, ind) ==
    IF IsDefined(ind.sma_50) /\ IsDefined(ind.sma_200) THEN
        IF close > ind.sma_50[1] /\ ind.sma_50[1] > ind.sma_200[1] THEN <<"bullish", 75>>
        ELSE IF close < ind.sma_50[1] /\ ind.sma_50[1] < ind.sma_200[1] THEN <<"bearish", 75>>
        ELSE <<"neutral", 50>>
    ELSE IF IsDefined(ind.ema_12) /\ IsDefined(ind.ema_26) THEN
        IF ind.ema_12[1] > ind.ema_26[1] THEN <<"bullish", 60>>
        ELSE IF ind.ema_12[1] < ind.ema_26[1] THEN <<"bearish", 60>>
        ELSE <<"neutral", 50>>
    ELSE <<"neutral", 50>>

\* C9: _analyze_trend applies the first applicable rule: the SMA rule whenever sma_50
\* and sma_200 both have a value (zero included), else the EMA rule whenever ema_12
\* and ema_26 both have a value (zero included), else neutral/50.
C9_FirstApplicableRule ==
    pc = "return" =>
        <<ret.trend_direction, ret.trend_strength>>
            = ClaimedTrend(Last(args.close), args.indicators)

\* C10: strength is strong iff at least 3 distinct patterns matched, moderate iff
\* exactly 2, weak otherwise, the shared engulfing detector counting as one matched
\* pattern; bullish_patterns and bearish_patterns are disjoint and together hold
\* exactly the names of patterns_found.
C10_StrengthCountsDistinctPatterns ==
    pc = "return" =>
        LET matched == Cardinality({d \in Detectors : args.cdl[d] # 0})
        IN  /\ (ret.strength = "strong") <=> (matched >= 3)
            /\ (ret.strength = "moderate") <=> (matched = 2)
            /\ (ret.strength = "weak") <=> (matched <= 1)
            /\ SetOf(ret.bullish_patterns) \cap SetOf(ret.bearish_patterns) = {}
            /\ SetOf(ret.bullish_patterns) \cup SetOf(ret.bearish_patterns)
                 = SetOf(ret.patterns_found)

====
